---- MODULE Spec2Model ----
(***************************************************************************)
(* EraseX-web: the certificate issuance web application (app.py), the      *)
(* detached signature verifier (verify.py) and the operator key pair       *)
(* (genkeys.py).                                                           *)
(*                                                                         *)
(* Spec        the Flask application served by a threaded server: every    *)
(*             request handler runs in its own thread over the shared      *)
(*             module-level dict wipe_history and the certificates/ folder.*)
(* VerifySpec  verify.py run on (certificate bytes, signature bytes,       *)
(*             public key bytes), next to an offline signer that holds     *)
(*             operator_private.pem.                                       *)
(***************************************************************************)
EXTENDS Integers, Sequences, FiniteSets, TLC

\* ------------------------------------------------------------------ bounds
\* the wall clock runs from 0 to MaxClock ticks
MaxClock == 2
\* clock ticks per second (datetime.now() is finer than the %S field)
TicksPerSecond == 2

\* the request-handler threads of the server
Threads == {"t1", "t2"}

\* the values str(uuid.uuid4())[:8] takes: 8 hex digits, so two requests can
\* draw the same value
Ids == {"a1b2c3d4", "0f9e8d7c"}
NoId == ""

\* ------------------------------------------------------------- JSON values
\* request.get_json(force=True).get("drive"): None when the key is missing,
\* otherwise the string sent
JsonNull == [type |-> "null", val |-> ""]
JsonStr(s) == [type |-> "string", val |-> s]
DriveInputs == {JsonNull, JsonStr(""), JsonStr("D:\\")}

\* python truthiness of the value, as used by `if not drive`
Truthy_NoneOnly(v) == v.type # "null"
Truthy(v) == v.type = "string" /\ v.val # ""

\* ------------------------------------------------------------------ hashes
demo_bytes == "DemoSensitiveDataForHashing"
\* hashlib.sha256(demo_bytes).hexdigest()
pre_hash == "sha256:" \o demo_bytes
\* hashlib.sha256(b"\x00" * len(demo_bytes)).hexdigest()
post_hash == "sha256:00*27"

\* ------------------------------------------------------------------- clock
\* datetime.now().strftime("%Y-%m-%d %H:%M:%S"): the reading cut to the second
strftime(t) == [sec |-> t \div TicksPerSecond]
\* datetime.now().isoformat(): the reading with its sub-second part
isoformat(t) == [sec |-> t \div TicksPerSecond, usec |-> t % TicksPerSecond]
NoTimestamp == [sec |-> -1]

\* ------------------------------------------------------------------- files
\* os.path.join(CERT_DIR, f"erasex_cert_{cert_id}.pdf")
pdf_path(cert_id) == "certificates/erasex_cert_" \o cert_id \o ".pdf"
PdfPaths == {pdf_path(i) : i \in Ids}

FileAbsent == [state |-> "absent"]
\* opened with "wb" (truncated) and not yet completely written
FilePartial == [state |-> "partial"]
\* the document written and the file closed
FileComplete == [state |-> "complete"]

\* -------------------------------------------------------------------- keys
\* genkeys.py: rsa.generate_private_key(public_exponent, key_size), scaled
\* down to a modulus of two bytes: n = 199 * 211, e * d = 1 mod lcm(198, 210)
operator_private == [n |-> 41989, e |-> 13, d |-> 6397]
\* private_key.public_key()
public_key(private) == [n |-> private.n, e |-> private.e]
\* a key pair of somebody else: n = 193 * 197
other_private == [n |-> 38021, e |-> 5, d |-> 15053]
\* length in bytes of a signature under these keys
KeySize == 2

\* public_bytes(Encoding.PEM, PublicFormat.SubjectPublicKeyInfo)
public_bytes(key) == [header |-> "PUBLIC KEY", body |-> <<key.n, key.e>>]
operator_public_pem == public_bytes(public_key(operator_private))
NoPem == [header |-> "", body |-> <<>>]
\* what a verifier may be handed as the public key file
PemInputs ==
    {operator_public_pem,
     public_bytes(public_key(other_private)),
     [header |-> "PUBLIC KEY", body |-> <<operator_private.n>>],
     [header |-> "CERTIFICATE", body |-> <<operator_private.n, operator_private.e>>],
     NoPem}

\* serialization.load_pem_public_key(data): the key, or ValueError
load_pem_public_key(pem) ==
    IF pem.header = "PUBLIC KEY" /\ Len(pem.body) = 2
    THEN [ok |-> TRUE, n |-> pem.body[1], e |-> pem.body[2]]
    ELSE [ok |-> FALSE, n |-> 0, e |-> 0]

\* ------------------------------------------------- RSA PKCS1v15 / SHA-256
\* b^e mod n by repeated squaring
RECURSIVE ModExp(_, _, _)
ModExp(b, e, n) ==
    IF e = 0 THEN 1
    ELSE LET h == ModExp(b, e \div 2, n)
             sq == (h * h) % n
         IN IF e % 2 = 1 THEN (sq * b) % n ELSE sq

\* the integer a byte string denotes, big-endian
RECURSIVE OS2IP(_)
OS2IP(bytes) ==
    IF bytes = <<>> THEN 0
    ELSE OS2IP(SubSeq(bytes, 1, Len(bytes) - 1)) * 256 + bytes[Len(bytes)]
\* and back, on KeySize bytes
I2OSP(x) == <<x \div 256, x % 256>>

\* hashes.SHA256() over a byte string. The model's digest is the string read
\* as a number in base DigestBase, one digit per byte: distinct strings of the
\* model have distinct digests, as SHA-256 is taken to have
DigestBase == MaxClock + 3
RECURSIVE SHA256(_)
SHA256(bytes) ==
    IF bytes = <<>> THEN 0
    ELSE SHA256(SubSeq(bytes, 1, Len(bytes) - 1)) * DigestBase
         + bytes[Len(bytes)] + 1

\* padding.PKCS1v15(): the encoded message 00 01 FF .. FF 00 DigestInfo digest,
\* as a number below the modulus
EMSA_PKCS1v15(digest) == 30000 + digest

\* RSAPublicKey.verify(signature, data, PKCS1v15, SHA256): TRUE, or FALSE
\* where the library raises InvalidSignature
rsa_verify(key, signature, data) ==
    /\ Len(signature) = KeySize
    /\ OS2IP(signature) < key.n
    /\ ModExp(OS2IP(signature), key.e, key.n) = EMSA_PKCS1v15(SHA256(data))

\* RSAPrivateKey.sign(data, PKCS1v15, SHA256)
rsa_sign(private, data) ==
    I2OSP(ModExp(EMSA_PKCS1v15(SHA256(data)), private.d, private.n))

\* verify.py:8-33 on the contents of its three files: "True", "False", or the
\* exception that leaves the function
verify_certificate_unbound(cert_data, signature, pubkey_pem) ==
    LET pubkey == load_pem_public_key(pubkey_pem) IN
    IF ~pubkey.ok THEN "ValueError"
    ELSE IF /\ Len(signature) = KeySize
            /\ OS2IP(signature) < pubkey.n
            /\ ModExp(OS2IP(signature), pubkey.e, pubkey.n) >= EMSA_PKCS1v15(0)
         THEN "True" ELSE "False"

verify_certificate(cert_data, signature, pubkey_pem) ==
    LET pubkey == load_pem_public_key(pubkey_pem) IN
    IF ~pubkey.ok THEN "ValueError"
    ELSE IF rsa_verify(pubkey, signature, cert_data)
         THEN "True" ELSE "False"

\* ----------------------------------------------------------------- records
\* the certificate record: id, subject, issued_at, pre_hash, post_hash
Subjects == {"D:\\", "C:\\"}
Timestamps == {isoformat(t) : t \in 0..MaxClock}
PreHashes == {pre_hash, "sha256:tampered"}
PostHashes == {post_hash, "sha256:00*27^1"}
Records ==
    [id : Ids, subject : Subjects, issued_at : Timestamps,
     pre_hash : PreHashes, post_hash : PostHashes]

\* one byte per field value
FieldByte(field, x) ==
    CASE field = "id" -> IF x = "a1b2c3d4" THEN 0 ELSE 1
      [] field = "subject" -> IF x = "D:\\" THEN 0 ELSE 1
      [] field = "issued_at" -> x.sec * TicksPerSecond + x.usec
      [] field = "pre_hash" -> IF x = pre_hash THEN 0 ELSE 1
      [] field = "post_hash" -> IF x = post_hash THEN 0 ELSE 1

\* the bytes signed and verified: the five fields in a fixed order
CanonicalBytes(r) ==
    <<FieldByte("id", r.id), FieldByte("subject", r.subject),
      FieldByte("issued_at", r.issued_at), FieldByte("pre_hash", r.pre_hash),
      FieldByte("post_hash", r.post_hash)>>

\* the signer: the signature of the operator over the canonical bytes
issue(r) == rsa_sign(operator_private, CanonicalBytes(r))

\* the record a registry entry stands for, and the signature stored with it
\* (the empty byte string when none is)
RecordOf(cert_id, entry) ==
    [id |-> cert_id, subject |-> entry.drive, issued_at |-> entry.timestamp,
     pre_hash |-> entry.pre_hash, post_hash |-> entry.post_hash]
SignatureOf(entry) ==
    IF "signature" \in DOMAIN entry THEN entry.signature ELSE <<>>

\* a signature with one bit flipped, and one cut short
FlipBit(signature) ==
    [signature EXCEPT ![Len(signature)] = @ + 1 - 2 * (@ % 2)]
Truncate(signature) == SubSeq(signature, 1, Len(signature) - 1)

VARIABLES
    wipe_history,   \* app.py:24, cert_id -> entry
    files,          \* the PDF files of CERT_DIR, by path
    clock,          \* the wall clock datetime.now() reads
    pc,             \* where each handler thread is
    l_cert_id,      \* api_wipe_drive: cert_id
    l_drive,        \* api_wipe_drive: drive
    l_timestamp,    \* generate_pdf_certificate: timestamp
    l_request,      \* the request a thread serves: route and argument
    last_response,  \* the response the server sent last, with its request
    signed,         \* VerifySpec: the records signed, each with its signature
    vreq,           \* VerifySpec: the last run of verify.py, its three inputs
    vres            \* VerifySpec: and its outcome

appvars == <<wipe_history, files, clock, pc, l_cert_id, l_drive, l_timestamp, l_request, last_response>>
vervars == <<signed, vreq, vres>>
vars == <<wipe_history, files, clock, pc, l_cert_id, l_drive, l_timestamp, l_request, last_response, signed, vreq, vres>>

NoRequest == [route |-> "none", arg |-> JsonNull]
Request(route, arg) == [route |-> route, arg |-> arg]
NoResponse == [route |-> "none", arg |-> JsonNull, status |-> 0, body |-> "none"]
Response(request, status, body) ==
    [route |-> request.route, arg |-> request.arg, status |-> status,
     body |-> body]

\* wipe_history.get(cert_id): the entry, or None
NoEntry == [drive |-> ""]
dict_get(d, k) == IF k \in DOMAIN d THEN d[k] ELSE NoEntry
\* d[k] = v
dict_set(d, k, v) == [x \in DOMAIN d \cup {k} |-> IF x = k THEN v ELSE d[x]]

\* the value stored at app.py:131-137
Entry(drive, timestamp, file) ==
    [drive |-> drive, pre_hash |-> pre_hash, post_hash |-> post_hash,
     timestamp |-> timestamp, file |-> file]
EntryFields == {"drive", "pre_hash", "post_hash", "timestamp", "file"}

Init ==
    /\ wipe_history = <<>>
    /\ files = [f \in PdfPaths |-> FileAbsent]
    /\ clock = 0
    /\ pc = [p \in Threads |-> "idle"]
    /\ l_cert_id = [p \in Threads |-> NoId]
    /\ l_drive = [p \in Threads |-> ""]
    /\ l_timestamp = [p \in Threads |-> NoTimestamp]
    /\ l_request = [p \in Threads |-> NoRequest]
    /\ last_response = NoResponse
    /\ signed = {}
    /\ vreq = [cert |-> <<>>, sig |-> <<>>, key |-> NoPem]
    /\ vres = "none"

\* the handler returns (or raises): the response is sent, the thread is free
Return(p, response) ==
    /\ pc' = [pc EXCEPT ![p] = "idle"]
    /\ l_cert_id' = [l_cert_id EXCEPT ![p] = NoId]
    /\ l_drive' = [l_drive EXCEPT ![p] = ""]
    /\ l_timestamp' = [l_timestamp EXCEPT ![p] = NoTimestamp]
    /\ l_request' = [l_request EXCEPT ![p] = NoRequest]
    /\ last_response' = response

\* time passes
Tick ==
    /\ clock < MaxClock
    /\ clock' = clock + 1
    /\ UNCHANGED <<wipe_history, files, pc, l_cert_id, l_drive, l_timestamp, l_request, last_response>>
    /\ UNCHANGED vervars

\* POST /wipe-drive, app.py:118-128: the drive is read and checked, the
\* hashes are computed and cert_id = str(uuid.uuid4())[:8] is drawn
api_wipe_drive(p, drive) ==
    /\ pc[p] = "idle"
    /\ IF ~Truthy(drive)
       THEN /\ Return(p, Response(Request("wipe-drive", drive), 400,
                                  "Please specify 'drive'"))
       ELSE /\ \E id \in Ids : l_cert_id' = [l_cert_id EXCEPT ![p] = id]
            /\ l_drive' = [l_drive EXCEPT ![p] = drive.val]
            /\ l_request' = [l_request EXCEPT ![p] = Request("wipe-drive", drive)]
            /\ pc' = [pc EXCEPT ![p] = "render"]
            /\ UNCHANGED <<l_timestamp, last_response>>
    /\ UNCHANGED <<wipe_history, files, clock>>
    /\ UNCHANGED vervars

\* generate_pdf_certificate, app.py:46-96: the timestamp is read, the QR
\* image is made and the page is drawn in memory (an exception of drawImage
\* is swallowed at app.py:76-79: the page is then left without its QR code
\* and the issuance goes on)
generate_pdf_certificate(p) ==
    /\ pc[p] = "render"
    /\ l_timestamp' = [l_timestamp EXCEPT ![p] = strftime(clock)]
    /\ pc' = [pc EXCEPT ![p] = "save"]
    /\ UNCHANGED <<wipe_history, files, clock, l_cert_id, l_drive, l_request,
                   last_response>>
    /\ UNCHANGED vervars

\* c.save(), app.py:97: the PDF file is opened for writing, which truncates it
SaveBegin(p) ==
    /\ pc[p] = "save"
    /\ files' = [files EXCEPT ![pdf_path(l_cert_id[p])] = FilePartial]
    /\ pc' = [pc EXCEPT ![p] = "saving"]
    /\ UNCHANGED <<wipe_history, clock, l_cert_id, l_drive, l_timestamp, l_request, last_response>>
    /\ UNCHANGED vervars

\* c.save() writes the document and closes the file; the QR file is removed
\* (errors ignored) and pdf_path is returned, app.py:97-105
SaveEnd(p) ==
    /\ pc[p] = "saving"
    /\ files' = [files EXCEPT ![pdf_path(l_cert_id[p])] = FileComplete]
    /\ pc' = [pc EXCEPT ![p] = "store"]
    /\ UNCHANGED <<wipe_history, clock, l_cert_id, l_drive, l_timestamp, l_request, last_response>>
    /\ UNCHANGED vervars

\* an exception leaves generate_pdf_certificate (url_for, the QR image, the
\* write of the PDF): app.py:131-137 is skipped and Flask answers 500
IssueError_StoresEntry(p) ==
    /\ pc[p] \in {"render", "save", "saving"}
    /\ wipe_history' = dict_set(wipe_history, l_cert_id[p],
                                [drive |-> l_drive[p],
                                 file |-> pdf_path(l_cert_id[p])])
    /\ Return(p, Response(l_request[p], 500, "Internal Server Error"))
    /\ UNCHANGED <<files, clock>>
    /\ UNCHANGED vervars

IssueError(p) ==
    /\ pc[p] \in {"render", "save", "saving"}
    /\ Return(p, Response(l_request[p], 500, "Internal Server Error"))
    /\ UNCHANGED <<wipe_history, files, clock>>
    /\ UNCHANGED vervars

\* app.py:131-137: the entry is assigned under cert_id, with a second reading
\* of the clock
Store(p) ==
    /\ pc[p] = "store"
    /\ wipe_history' = dict_set(wipe_history, l_cert_id[p],
                                Entry(l_drive[p], isoformat(clock),
                                      pdf_path(l_cert_id[p])))
    /\ pc' = [pc EXCEPT ![p] = "respond"]
    /\ UNCHANGED <<files, clock, l_cert_id, l_drive, l_timestamp, l_request, last_response>>
    /\ UNCHANGED vervars

\* app.py:139-145: the JSON answer with the certificate id is returned
Respond(p) ==
    /\ pc[p] = "respond"
    /\ Return(p, Response(l_request[p], 200, l_cert_id[p]))
    /\ UNCHANGED <<wipe_history, files, clock>>
    /\ UNCHANGED vervars

\* GET /download/<cert_id>, app.py:147-152, with a pop in place of the get
download_certificate_pop(p, cert_id) ==
    /\ pc[p] = "idle"
    /\ LET rec == dict_get(wipe_history, cert_id)
           request == Request("download", JsonStr(cert_id)) IN
         IF rec = NoEntry
         THEN Return(p, Response(request, 404, "Certificate not found"))
         ELSE Return(p, Response(request, 200, files[rec.file].state))
    /\ wipe_history' = [k \in DOMAIN wipe_history \ {cert_id} |-> wipe_history[k]]
    /\ UNCHANGED <<files, clock>>
    /\ UNCHANGED vervars

\* GET /download/<cert_id>, app.py:147-152: send_file sends what the file holds
download_certificate(p, cert_id) ==
    /\ pc[p] = "idle"
    /\ LET rec == dict_get(wipe_history, cert_id)
           request == Request("download", JsonStr(cert_id)) IN
         IF rec = NoEntry
         THEN Return(p, Response(request, 404, "Certificate not found"))
         ELSE Return(p, Response(request, 200, files[rec.file].state))
    /\ UNCHANGED <<wipe_history, files, clock>>
    /\ UNCHANGED vervars

\* GET /verify/<cert_id>, app.py:154-170
verify(p, cert_id) ==
    /\ pc[p] = "idle"
    /\ LET rec == dict_get(wipe_history, cert_id)
           request == Request("verify", JsonStr(cert_id)) IN
         IF rec = NoEntry
         THEN Return(p, Response(request, 404, "not found"))
         ELSE Return(p, Response(request, 200, "EraseX Certificate Verified"))
    /\ UNCHANGED <<wipe_history, files, clock>>
    /\ UNCHANGED vervars

\* ids a client may ask for: the ids issued, and one never issued
LookupIds == Ids \cup {"ffffffff"}

Next ==
    \/ Tick
    \/ \E p \in Threads, drive \in DriveInputs : api_wipe_drive(p, drive)
    \/ \E p \in Threads : generate_pdf_certificate(p)
    \/ \E p \in Threads : SaveBegin(p)
    \/ \E p \in Threads : SaveEnd(p)
    \/ \E p \in Threads : IssueError(p)
    \/ \E p \in Threads : Store(p)
    \/ \E p \in Threads : Respond(p)
    \/ \E p \in Threads, cert_id \in LookupIds : download_certificate(p, cert_id)
    \/ \E p \in Threads, cert_id \in LookupIds : verify(p, cert_id)

Spec == Init /\ [][Next]_vars

\* ---------------------------------------------------------------- verify.py
\* the operator signs a record and hands out the record and its signature
Sign(r) ==
    /\ signed = {}
    /\ signed' = {[record |-> r, signature |-> issue(r)]}
    /\ UNCHANGED <<vreq, vres>>
    /\ UNCHANGED appvars

\* signature files a verifier may be handed: a signature that was issued, the
\* same with a bit flipped or cut short, an empty file, and the signature of
\* another key over the same record
SignatureInputs ==
    {<<>>} \cup
    UNION {{s.signature, FlipBit(s.signature), Truncate(s.signature),
            rsa_sign(other_private, CanonicalBytes(s.record))} : s \in signed}

\* python verify.py <cert.json> <cert.sig> <operator_public.pem>
RunVerify(cert_data, signature, pubkey_pem) ==
    /\ vres = "none"
    /\ vreq' = [cert |-> cert_data, sig |-> signature, key |-> pubkey_pem]
    /\ vres' = verify_certificate(cert_data, signature, pubkey_pem)
    /\ UNCHANGED signed
    /\ UNCHANGED appvars

\* the process has printed its result, or its traceback, and exits
Exit ==
    /\ vres # "none"
    /\ vreq' = [cert |-> <<>>, sig |-> <<>>, key |-> NoPem]
    /\ vres' = "none"
    /\ UNCHANGED signed
    /\ UNCHANGED appvars

NextVerify ==
    \/ \E r \in Records : Sign(r)
    \/ \E r \in Records, signature \in SignatureInputs, pem \in PemInputs :
          RunVerify(CanonicalBytes(r), signature, pem)
    \/ Exit

VerifySpec == Init /\ [][NextVerify]_vars

\* ------------------------------------------------------- claims about Spec

\* C5: registry ids are write-once: an entry stored under an id is never
\* replaced by a later issuance and get(id) keeps returning it unchanged.
C5_WriteOnce ==
    [][\A id \in DOMAIN wipe_history :
         /\ id \in DOMAIN wipe_history'
         /\ wipe_history'[id] = wipe_history[id]]_vars

\* C6: whenever an entry becomes visible under an id (or the entry under it
\* changes), the entry has all its fields and its PDF file is completely
\* written at that moment.
C6_AtomicVisibility ==
    [][\A id \in DOMAIN wipe_history' :
         (id \notin DOMAIN wipe_history \/ wipe_history'[id] # wipe_history[id])
         => /\ DOMAIN wipe_history'[id] = EntryFields
            /\ files[wipe_history'[id].file] = FileComplete
            /\ files'[wipe_history'[id].file] = FileComplete]_vars

\* C7: an issuance that ends by an exception answers 500 and leaves the
\* registry as it was; only the assignment at app.py:131 changes the registry,
\* it cannot fail, and the attempt that made it ends with the answer 200.
C7_FailureLeavesRegistry ==
    [][/\ \A p \in Threads :
            /\ (pc[p] \in {"render", "save", "saving"} /\ pc'[p] = "idle")
               => /\ last_response' = Response(l_request[p], 500,
                                               "Internal Server Error")
                  /\ wipe_history' = wipe_history
            /\ pc[p] = "store" => pc'[p] \in {"store", "respond"}
            /\ (pc[p] = "respond" /\ pc'[p] # "respond")
               => last_response'.status = 200
       /\ wipe_history' # wipe_history
          => \E p \in Threads : pc[p] = "store" /\ pc'[p] = "respond"]_vars

\* an issuance failed while its PDF was being written, next to an entry
\* stored before it
C7_Witness ==
    /\ last_response.route = "wipe-drive"
    /\ last_response.status = 500
    /\ \E f \in PdfPaths : files[f] = FilePartial
    /\ wipe_history # <<>>
    /\ \A p \in Threads : pc[p] = "idle"

\* C8: an issuance request whose drive is unset or empty is answered 400 in
\* the step that receives it, which generates no id, renders no file and
\* stores no entry; no issuance runs, and no entry exists, with an empty drive.
C8_MissingDriveRejected ==
    [][/\ \A p \in Threads :
            pc'[p] # "idle" => l_drive'[p] # "" /\ Truthy(l_request'[p].arg)
       /\ \A id \in DOMAIN wipe_history' : wipe_history'[id].drive # ""
       /\ (/\ last_response' # last_response
           /\ last_response'.route = "wipe-drive"
           /\ ~Truthy(last_response'.arg))
          => /\ last_response'.status = 400
             /\ pc' = pc
             /\ l_cert_id' = l_cert_id
             /\ files' = files
             /\ wipe_history' = wipe_history]_vars

\* a request without a usable drive was answered while the registry holds an
\* entry and another issuance is under way
C8_Witness ==
    /\ last_response.route = "wipe-drive"
    /\ last_response.arg = JsonStr("")
    /\ last_response.status = 400
    /\ wipe_history # <<>>
    /\ \E p \in Threads : pc[p] = "saving"

\* C9: a lookup (download or verify by id) leaves the registry unchanged; it
\* answers 404 exactly when the id is absent; and no step removes an entry.
C9_LookupFrame ==
    [][/\ (/\ last_response' # last_response
           /\ last_response'.route \in {"download", "verify"})
          => /\ wipe_history' = wipe_history
             /\ last_response'.status =
                  IF last_response'.arg.val \in DOMAIN wipe_history
                  THEN 200 ELSE 404
       /\ DOMAIN wipe_history \subseteq DOMAIN wipe_history']_vars

\* a lookup missed while the registry holds an entry under another id
C9_Witness ==
    /\ last_response.route \in {"download", "verify"}
    /\ last_response.status = 404
    /\ last_response.arg.val \notin DOMAIN wipe_history
    /\ wipe_history # <<>>

\* the two timestamps denote one clock reading, as far as the PDF's format
\* (whole seconds) tells
SameReading(pdf_timestamp, entry_timestamp) ==
    pdf_timestamp.sec = entry_timestamp.sec

\* C10: the timestamp an issuance writes into the PDF and the timestamp it
\* stores in the registry entry denote the same clock reading.
C10_SingleIssuedAt ==
    [][\A p \in Threads :
         (pc[p] = "store" /\ pc'[p] = "respond")
         => SameReading(l_timestamp[p],
                        wipe_history'[l_cert_id[p]].timestamp)]_vars

\* ------------------------------------------------- claims about VerifySpec

\* C1: tamper-evidence: verifying a record that differs from the signed
\* record in any field, against the signature issued for the signed record
\* and the operator's public key, answers False.
C1_TamperEvidence ==
    \A s \in signed : \A r \in Records :
        (/\ r # s.record
         /\ vreq.cert = CanonicalBytes(r)
         /\ vreq.sig = s.signature
         /\ vreq.key = operator_public_pem)
        => vres = "False"

\* the signed record was verified with one character of its post_hash changed
C1_Witness ==
    \E s \in signed :
        /\ s.record.post_hash = post_hash
        /\ vreq.cert = CanonicalBytes([s.record EXCEPT
                                          !.post_hash = "sha256:00*27^1"])
        /\ vreq.sig = s.signature
        /\ vreq.key = operator_public_pem
        /\ vres = "False"

\* C3: the verifier never raises: whatever the three inputs, a run ends with
\* the value True or the value False.
C3_VerifierNeverRaises == vres \in {"none", "True", "False"}

\* ------------------------------------- claims about Spec that use verify.py

\* C2: issue/verify round trip: every record the issuance stored comes with a
\* signature that verify.py accepts under the operator's public key.
C2_IssueVerifyRoundTrip ==
    \A id \in DOMAIN wipe_history :
        verify_certificate(CanonicalBytes(RecordOf(id, wipe_history[id])),
                           SignatureOf(wipe_history[id]),
                           operator_public_pem) = "True"

====
